---- MODULE Spec2Model ----
(***************************************************************************)
(* Model of the Flask service in src/app/main.py: the request handlers     *)
(* /echo, /transform, /summarize, /weather and /time, the framework's      *)
(* JSON body parsing and error pages, the upstream weather API and the     *)
(* wall clock.  Text is a sequence of one-character strings.               *)
(***************************************************************************)
EXTENDS Integers, Sequences, FiniteSets, TLC

VARIABLES
    key,            \* OPENWEATHER_KEY, read once at start-up
    legacyJson,     \* TRUE: the installed framework yields None for a body that is
                    \* not sent as JSON; FALSE: it rejects such a body
    pc,             \* "idle" | "pending" | "done": the request in flight
    req,            \* the request being handled (or last handled)
    resp,           \* the response to req
    outbound,       \* the GETs sent to the upstream while handling req
    upstream,       \* what the upstream answered to the last outbound GET
    clock,          \* the wall clock, in ticks
    times,          \* the bodies of the last two /time responses, oldest first
    backSinceLast,  \* the clock went backwards since the first clock read of the
                    \* most recent /time response
    back            \* the clock went backwards between the first read of times[1]
                    \* and the second read of times[2]

vars == <<key, legacyJson, pc, req, resp, outbound, upstream, clock,
          times, backSinceLast, back>>

(***************************************************************************)
(* Bounds of the model.                                                    *)
(***************************************************************************)
MaxTextLen == 4      \* longest generated /transform text
MaxSummLen == 7      \* longest generated /summarize text
MaxClock == 3        \* the wall clock ranges over 0..MaxClock ticks
TicksPerSecond == 2  \* clock ticks in a second (the resolution of isoformat)

Min(a, b) == IF a < b THEN a ELSE b
Max(a, b) == IF a > b THEN a ELSE b

(***************************************************************************)
(* Python strings.                                                         *)
(***************************************************************************)
Lowers == <<"a","b","c","d","e","f","g","h","i","j","k","l","m",
            "n","o","p","q","r","s","t","u","v","w","x","y","z">>
Uppers == <<"A","B","C","D","E","F","G","H","I","J","K","L","M",
            "N","O","P","Q","R","S","T","U","V","W","X","Y","Z">>
Whitespace == {" ", "\t", "\n"}
IsSpace(c) == c \in Whitespace

UpperChar(c) ==
    IF \E i \in 1..Len(Lowers) : Lowers[i] = c
    THEN Uppers[CHOOSE i \in 1..Len(Lowers) : Lowers[i] = c]
    ELSE c
LowerChar(c) ==
    IF \E i \in 1..Len(Uppers) : Uppers[i] = c
    THEN Lowers[CHOOSE i \in 1..Len(Uppers) : Uppers[i] = c]
    ELSE c

RECURSIVE MapChars(_, _)
\* which = "upper" or "lower"
MapChars(which, s) ==
    IF s = <<>> THEN <<>>
    ELSE <<IF which = "upper" THEN UpperChar(Head(s)) ELSE LowerChar(Head(s))>>
         \o MapChars(which, Tail(s))

\* str.upper()
PyUpper(s) == MapChars("upper", s)
\* str.lower()
PyLower(s) == MapChars("lower", s)

RECURSIVE LStrip(_)
LStrip(s) ==
    IF s = <<>> THEN <<>>
    ELSE IF IsSpace(Head(s)) THEN LStrip(Tail(s)) ELSE s
RECURSIVE RStrip(_)
RStrip(s) ==
    IF s = <<>> THEN <<>>
    ELSE IF IsSpace(s[Len(s)]) THEN RStrip(SubSeq(s, 1, Len(s) - 1)) ELSE s
\* str.strip()
PyStrip(s) == RStrip(LStrip(s))

RECURSIVE TakeWord(_)
\* the longest prefix of s without whitespace
TakeWord(s) ==
    IF s = <<>> \/ IsSpace(Head(s)) THEN <<>>
    ELSE <<Head(s)>> \o TakeWord(Tail(s))

RECURSIVE PySplit(_)
\* str.split(): the words between runs of whitespace, none of them empty
PySplit(s) ==
    LET t == LStrip(s) IN
    IF t = <<>> THEN <<>>
    ELSE LET w == TakeWord(t) IN <<w>> \o PySplit(SubSeq(t, Len(w) + 1, Len(t)))

RECURSIVE PyJoin(_, _)
\* sep.join(parts)
PyJoin(sep, parts) ==
    IF parts = <<>> THEN <<>>
    ELSE IF Len(parts) = 1 THEN parts[1]
    ELSE parts[1] \o sep \o PyJoin(sep, Tail(parts))

\* " ".join(text.split())
CollapseTrimOnly(s) == PyStrip(s)
Collapse(s) == PyJoin(<<" ">>, PySplit(s))

(***************************************************************************)
(* naive_summary: re.split(r'(?<=[.!?])\s+', text.strip()) and the slice.   *)
(***************************************************************************)
SentenceEnd == {".", "!", "?"}

RECURSIVE SpaceRunEnd(_, _)
\* index of the last character of the whitespace run that starts at i
SpaceRunEnd(s, i) ==
    IF i < Len(s) /\ IsSpace(s[i + 1]) THEN SpaceRunEnd(s, i + 1) ELSE i

RECURSIVE ReSplitFrom(_, _, _)
\* the parts of s from index start on, scanning at index i: a separator is a
\* maximal run of whitespace whose preceding character is '.', '!' or '?'
ReSplitFrom(s, start, i) ==
    IF i > Len(s) THEN <<SubSeq(s, start, Len(s))>>
    ELSE IF IsSpace(s[i]) /\ i > 1 /\ s[i - 1] \in SentenceEnd
         THEN LET j == SpaceRunEnd(s, i) IN
              <<SubSeq(s, start, i - 1)>> \o ReSplitFrom(s, j + 1, j + 1)
         ELSE ReSplitFrom(s, start, i + 1)

\* re.split(r'(?<=[.!?])\s+', s): never an empty list
ReSplit(s) == ReSplitFrom(s, 1, 1)

\* parts[:n], Python's slice: a negative n counts from the end
PySliceTo(parts, n) ==
    IF n >= 0 THEN SubSeq(parts, 1, Min(n, Len(parts)))
    ELSE SubSeq(parts, 1, Max(Len(parts) + n, 0))

naive_summary(text, max_sentences) ==
    LET parts == ReSplit(PyStrip(text)) IN
    IF parts # <<>> THEN PyJoin(<<" ">>, PySliceTo(parts, max_sentences)) ELSE <<>>

(***************************************************************************)
(* JSON values as the parser yields them: [t, n, s] with t the type, n the *)
(* number (an int; a bool as 0/1; a float in tenths; the length of a list  *)
(* or the number of keys of an object) and s the characters of a string.   *)
(* Missing marks a key that the object does not have.                      *)
(***************************************************************************)
JNull == [t |-> "null", n |-> 0, s |-> <<>>]
JBool(b) == [t |-> "bool", n |-> IF b THEN 1 ELSE 0, s |-> <<>>]
JInt(i) == [t |-> "int", n |-> i, s |-> <<>>]
JFloat(tenths) == [t |-> "float", n |-> tenths, s |-> <<>>]
JStr(chars) == [t |-> "str", n |-> 0, s |-> chars]
JList(len) == [t |-> "list", n |-> len, s |-> <<>>]
JObj(keys) == [t |-> "obj", n |-> keys, s |-> <<>>]
Missing == [t |-> "missing", n |-> 0, s |-> <<>>]

\* Python's truth value of a parsed JSON value
Truthy(v) ==
    CASE v.t = "null" -> FALSE
      [] v.t = "str" -> v.s # <<>>
      [] v.t \in {"bool", "int", "float", "list", "obj"} -> v.n # 0
      [] OTHER -> FALSE

\* dict.get(key, default) on the field f of the payload
Get(f, default) == IF f = Missing THEN default ELSE f

(***************************************************************************)
(* int(x)                                                                  *)
(***************************************************************************)
Digits == <<"0","1","2","3","4","5","6","7","8","9">>
IsDigit(c) == \E i \in 1..Len(Digits) : Digits[i] = c
DigitValue(c) == (CHOOSE i \in 1..Len(Digits) : Digits[i] = c) - 1

RECURSIVE DigitsValue(_, _)
DigitsValue(s, acc) ==
    IF s = <<>> THEN acc ELSE DigitsValue(Tail(s), 10 * acc + DigitValue(Head(s)))

\* int(str): surrounding whitespace, an optional sign, then digits only
IntOfString(chars) ==
    LET t == PyStrip(chars)
        signed == t # <<>> /\ Head(t) \in {"+", "-"}
        d == IF signed THEN Tail(t) ELSE t
    IN  IF d # <<>> /\ \A i \in 1..Len(d) : IsDigit(d[i])
        THEN [ok |-> TRUE,
              n |-> IF signed /\ Head(t) = "-" THEN 0 - DigitsValue(d, 0)
                    ELSE DigitsValue(d, 0)]
        ELSE [ok |-> FALSE, n |-> 0]

\* int(float): truncation towards zero
Truncate(tenths) == IF tenths >= 0 THEN tenths \div 10 ELSE 0 - ((0 - tenths) \div 10)

\* int(v): ok = FALSE when int() raises (TypeError or ValueError)
PyInt(v) ==
    CASE v.t \in {"int", "bool"} -> [ok |-> TRUE, n |-> v.n]
      [] v.t = "float" -> [ok |-> TRUE, n |-> Truncate(v.n)]
      [] v.t = "str" -> IntOfString(v.s)
      [] OTHER -> [ok |-> FALSE, n |-> 0]

DefaultMaxSentences == 3

\* try: int(payload.get("max_sentences", 3)) except Exception: 3
MaxSentencesOrZero(f) ==
    LET c == PyInt(Get(f, JInt(DefaultMaxSentences))) IN
    IF c.ok THEN c.n ELSE 0
MaxSentences(f) ==
    LET c == PyInt(Get(f, JInt(DefaultMaxSentences))) IN
    IF c.ok THEN c.n ELSE DefaultMaxSentences

(***************************************************************************)
(* The framework: responses, error pages and request.json.                 *)
(***************************************************************************)
\* jsonify(body), status
Json(body, status) == [status |-> status, ctype |-> "json", body |-> body]
\* the framework's own answer to an HTTPException or to an exception that the
\* handler lets escape: an HTML error page
ErrorPage(status) == [status |-> status, ctype |-> "html", body |-> [page |-> status]]
BadRequest == ErrorPage(400)
UnsupportedMediaType == ErrorPage(415)
InternalServerError == ErrorPage(500)

\* A request body: kind "absent" (nothing sent as JSON), "malformed" (sent as JSON
\* and not parsable) or "json" with the parsed value val; text, mode and
\* max_sentences are the keys of val when val is an object.
MakeBody(kind, val, text, mode, max_s) ==
    [kind |-> kind, val |-> val, text |-> text, mode |-> mode, max_sentences |-> max_s]
AbsentBody == MakeBody("absent", JNull, Missing, Missing, Missing)
MalformedBody == MakeBody("malformed", JNull, Missing, Missing, Missing)
ValueBody(v) == MakeBody("json", v, Missing, Missing, Missing)
ObjectBody(text, mode, max_s) ==
    MakeBody("json", JObj(Cardinality({i \in 1..3 : <<text, mode, max_s>>[i] # Missing})),
             text, mode, max_s)

\* request.json: [ok |-> TRUE, val] or the error page the parser aborts with
RequestJson(body, legacy) ==
    CASE body.kind = "json" -> [ok |-> TRUE, val |-> body.val, page |-> BadRequest]
      [] body.kind = "malformed" -> [ok |-> FALSE, val |-> JNull, page |-> BadRequest]
      [] OTHER -> IF legacy THEN [ok |-> TRUE, val |-> JNull, page |-> BadRequest]
                  ELSE [ok |-> FALSE, val |-> JNull, page |-> UnsupportedMediaType]

\* payload.get(name) for payload = request.json or {}
Field(val, body, name) == IF Truthy(val) /\ val.t = "obj" THEN body[name] ELSE Missing
\* payload.get raises AttributeError: the parsed value is truthy and no dict
NoDict(val) == Truthy(val) /\ val.t # "obj"

(***************************************************************************)
(* POST /echo                                                              *)
(***************************************************************************)
EchoBodyWrongStatus(data) == [you_sent |-> data, status |-> "failure"]
EchoBody(data) == [you_sent |-> data, status |-> "success"]

echo(body, legacy) ==
    LET j == RequestJson(body, legacy) IN
    IF ~j.ok THEN j.page ELSE Json(EchoBody(j.val), 200)

(***************************************************************************)
(* POST /transform                                                         *)
(***************************************************************************)
ModeUpper == <<"u","p","p","e","r">>
ModeLower == <<"l","o","w","e","r">>
ModeStrip == <<"s","t","r","i","p">>

transform(body, legacy) ==
    LET j == RequestJson(body, legacy) IN
    IF ~j.ok THEN j.page
    ELSE IF NoDict(j.val) THEN InternalServerError
    ELSE
      LET text == Get(Field(j.val, body, "text"), JStr(<<>>))
          m == Get(Field(j.val, body, "mode"), JStr(ModeUpper))
      IN  IF m.t # "str" THEN InternalServerError        \* m.lower()
          ELSE
            LET mode == PyLower(m.s)
                ok(result) == Json([original |-> text, result |-> JStr(result),
                                    mode |-> mode], 200)
            IN  IF mode \in {ModeUpper, ModeLower, ModeStrip}
                THEN IF text.t # "str" THEN InternalServerError   \* text.upper() ...
                     ELSE IF mode = ModeUpper THEN ok(PyUpper(text.s))
                     ELSE IF mode = ModeLower THEN ok(PyLower(text.s))
                     ELSE ok(Collapse(text.s))
                ELSE Json([error |-> "invalid mode"], 400)

(***************************************************************************)
(* POST /summarize                                                         *)
(***************************************************************************)
summarize(body, legacy) ==
    LET j == RequestJson(body, legacy) IN
    IF ~j.ok THEN j.page
    ELSE IF NoDict(j.val) THEN InternalServerError
    ELSE
      LET text == Get(Field(j.val, body, "text"), JStr(<<>>)) IN
      IF ~Truthy(text) THEN Json([error |-> "missing 'text' in body"], 400)
      ELSE
        LET max_s == MaxSentences(Field(j.val, body, "max_sentences")) IN
        IF text.t # "str" THEN InternalServerError       \* text.strip()
        ELSE LET summary == naive_summary(text.s, max_s) IN
             Json([summary |-> summary, length |-> Len(PySplit(summary)),
                   max_sentences |-> max_s], 200)

(***************************************************************************)
(* GET /weather                                                            *)
(***************************************************************************)
\* a query argument or an environment variable: None or a string
None == [present |-> FALSE, s |-> <<>>]
Some(chars) == [present |-> TRUE, s |-> chars]
\* Python's "not x" for None or a string
Not(x) == ~x.present \/ x.s = <<>>

\* the checks before the outbound call: the response to return early, or
\* status 0 to go on
WeatherGuardKeyFirst(city, k) ==
    IF Not(k) THEN Json([error |-> "OPENWEATHER_API_KEY not configured on server"], 500)
    ELSE IF Not(city) THEN Json([error |-> "missing 'city' parameter"], 400)
    ELSE Json([proceed |-> TRUE], 0)
WeatherGuard(city, k) ==
    IF Not(city) THEN Json([error |-> "missing 'city' parameter"], 400)
    ELSE IF Not(k) THEN Json([error |-> "OPENWEATHER_API_KEY not configured on server"], 500)
    ELSE Json([proceed |-> TRUE], 0)

\* requests.get(url, params=params, timeout=10)
OutboundGet(city, units, k) ==
    [url |-> "https://api.openweathermap.org/data/2.5/weather",
     q |-> city.s, units |-> IF units.present THEN units.s ELSE <<"m","e","t","r","i","c">>,
     appid |-> k.s]

\* What the upstream does with a GET: kind "timeout" or "unreachable" (requests
\* raises), or "response" with a status, the body text and what the text parses
\* to: shape "object" (with name, weather and main keys, Missing when absent),
\* "array" or "notjson".
Answer(kind, status, text, shape, name, weather, main) ==
    [kind |-> kind, status |-> status, text |-> text, shape |-> shape,
     name |-> name, weather |-> weather, main |-> main]
NoAnswer == Answer("none", 0, "", "notjson", Missing, Missing, Missing)

\* the response built from the upstream's answer
UpstreamData(up) ==
    [text |-> up.text, name |-> up.name, weather |-> up.weather, main |-> up.main]
WeatherFromAnswerBadGateway(up) ==
    IF up.kind # "response" THEN InternalServerError
    ELSE IF up.status # 200
    THEN Json([error |-> "failed to fetch weather", details |-> up.text], 502)
    ELSE IF up.shape # "object" THEN InternalServerError
    ELSE Json([city |-> Get(up.name, JNull), weather |-> Get(up.weather, JNull),
               main |-> Get(up.main, JNull), raw |-> UpstreamData(up)], 200)
WeatherFromAnswer(up) ==
    IF up.kind # "response" THEN InternalServerError     \* requests.get raises
    ELSE IF up.status # 200
    THEN Json([error |-> "failed to fetch weather", details |-> up.text], up.status)
    ELSE IF up.shape # "object" THEN InternalServerError \* resp.json() or data.get raises
    ELSE Json([city |-> Get(up.name, JNull), weather |-> Get(up.weather, JNull),
               main |-> Get(up.main, JNull), raw |-> UpstreamData(up)], 200)

(***************************************************************************)
(* GET /time                                                               *)
(***************************************************************************)
\* datetime.isoformat() + "Z" of the clock reading c: the seconds, and the
\* fraction only when it is not zero
IsoFormat(c) ==
    [sec |-> c \div TicksPerSecond, frac |-> c % TicksPerSecond,
     hasFrac |-> c % TicksPerSecond # 0, zone |-> "Z"]

\* the body built from the two clock readings: utcnow() first, time.time() second
TimeBodyFraction(c1, c2) == [utc_time |-> IsoFormat(c1), timestamp |-> c2 % TicksPerSecond]
TimeBody(c1, c2) == [utc_time |-> IsoFormat(c1), timestamp |-> c2]

(***************************************************************************)
(* Requests.                                                               *)
(***************************************************************************)
Request(path, body, city, units) ==
    [path |-> path, body |-> body, city |-> city, units |-> units]
NoRequest == Request("none", AbsentBody, None, None)
NoResponse == [status |-> 0, ctype |-> "none", body |-> [page |-> 0]]
Post(path, body) == Request(path, body, None, None)

RECURSIVE SeqsUpTo(_, _)
\* the sequences over alphabet of length at most n
SeqsUpTo(alphabet, n) ==
    IF n = 0 THEN {<<>>}
    ELSE LET shorter == SeqsUpTo(alphabet, n - 1) IN
         shorter \cup {Append(t, c) : t \in shorter, c \in alphabet}

\* bodies that are not a JSON object
OtherBodies ==
    {AbsentBody, MalformedBody, ValueBody(JNull), ValueBody(JList(0)),
     ValueBody(JList(1)), ValueBody(JInt(7)), ValueBody(JStr(<<"a">>))}

London == <<"L","o","n","d","o","n">>
HelloText ==
    <<"H","e","l","l","o","."," ","W","o","r","l","d","."," ",
      "F","o","o","."," ","B","a","r",".">>

\* the requests of the server specification: a few of each endpoint
EchoRequests == {Post("/echo", b) : b \in OtherBodies \cup {ObjectBody(Missing, Missing, Missing),
                                                            ObjectBody(JStr(<<"a">>), Missing, Missing)}}
TransformFewTexts == {Missing, JStr(<<" ","a","\t"," ","B"," ">>), JInt(5), JNull}
TransformFewModes ==
    {Missing, JStr(ModeUpper), JStr(<<"L","o","w","e","r">>), JStr(ModeStrip),
     JStr(<<"x">>), JInt(5), JNull}
TransformRequests ==
    {Post("/transform", b) : b \in OtherBodies}
    \cup {Post("/transform", ObjectBody(t, m, Missing)) :
              t \in TransformFewTexts, m \in TransformFewModes}
SummarizeFewTexts == {Missing, JStr(<<>>), JNull, JStr(<<"a","."," ","b","."," ","c">>), JInt(5)}
SummarizeFewLimits == {Missing, JInt(1), JInt(0 - 1), JNull, JStr(<<"2">>)}
SummarizeRequests ==
    {Post("/summarize", b) : b \in OtherBodies}
    \cup {Post("/summarize", ObjectBody(t, Missing, n)) :
              t \in SummarizeFewTexts, n \in SummarizeFewLimits}
WeatherRequests ==
    {Request("/weather", AbsentBody, c, u) :
        c \in {None, Some(<<>>), Some(London)}, u \in {None, Some(<<"i">>)}}
TimeRequests == {Request("/time", AbsentBody, None, None)}
ServerRequests == EchoRequests \cup TransformRequests \cup SummarizeRequests \cup WeatherRequests

\* the configurations of the process
Keys == {None, Some(<<>>), Some(<<"k">>)}

\* what the upstream may answer
Answers ==
    {Answer("timeout", 0, "", "notjson", Missing, Missing, Missing),
     Answer("unreachable", 0, "", "notjson", Missing, Missing, Missing)}
    \cup {Answer("response", st, "upstream error text", "notjson", Missing, Missing, Missing) :
              st \in {401, 404, 503}}
    \cup {Answer("response", 404, "{\"cod\":\"404\"}", "object", Missing, Missing, Missing)}
    \cup {Answer("response", 200, "{...}", "object", n, w, JObj(2)) :
              n \in {Missing, JStr(London)}, w \in {Missing, JList(1)}}
    \cup {Answer("response", 200, "[]", "array", Missing, Missing, Missing),
          Answer("response", 200, "<html>", "notjson", Missing, Missing, Missing)}

(***************************************************************************)
(* The state machine: a request arrives and its handler answers it.        *)
(***************************************************************************)
InitWith(keys, pending, clocks) ==
    /\ key \in keys
    /\ legacyJson \in BOOLEAN
    /\ IF pending = {} THEN pc = "idle" /\ req = NoRequest
       ELSE pc = "pending" /\ req \in pending
    /\ resp = NoResponse
    /\ outbound = <<>>
    /\ upstream = NoAnswer
    /\ clock \in clocks
    /\ times = <<>>
    /\ backSinceLast = FALSE
    /\ back = FALSE

\* the router: a request for one of the paths in rs is dispatched
Arrive(rs) ==
    /\ pc # "pending"
    /\ \E r \in rs : req' = r
    /\ pc' = "pending"
    /\ resp' = NoResponse
    /\ outbound' = <<>>
    /\ upstream' = NoAnswer
    /\ UNCHANGED <<key, legacyJson, clock, times, backSinceLast, back>>

Answered(path, response) ==
    /\ pc = "pending"
    /\ req.path = path
    /\ resp' = response
    /\ pc' = "done"
    /\ UNCHANGED <<key, legacyJson, req>>

Echo ==
    /\ Answered("/echo", echo(req.body, legacyJson))
    /\ UNCHANGED <<outbound, upstream, clock, times, backSinceLast, back>>

Transform ==
    /\ Answered("/transform", transform(req.body, legacyJson))
    /\ UNCHANGED <<outbound, upstream, clock, times, backSinceLast, back>>

Summarize ==
    /\ Answered("/summarize", summarize(req.body, legacyJson))
    /\ UNCHANGED <<outbound, upstream, clock, times, backSinceLast, back>>

Weather ==
    /\ pc = "pending"
    /\ req.path = "/weather"
    /\ LET early == WeatherGuard(req.city, key) IN
       IF early.status # 0
       THEN /\ resp' = early
            /\ UNCHANGED <<outbound, upstream>>
       ELSE \E up \in Answers :
            /\ outbound' = Append(outbound, OutboundGet(req.city, req.units, key))
            /\ upstream' = up
            /\ resp' = WeatherFromAnswer(up)
    /\ pc' = "done"
    /\ UNCHANGED <<key, legacyJson, req, clock, times, backSinceLast, back>>

\* the last two of a log
LastTwo(log) == IF Len(log) <= 2 THEN log ELSE SubSeq(log, Len(log) - 1, Len(log))

\* current_time: the clock is read twice, and may have moved in between
CurrentTime ==
    /\ pc = "pending"
    /\ req.path = "/time"
    /\ \E c2 \in 0..MaxClock :
        /\ resp' = Json(TimeBody(clock, c2), 200)
        /\ times' = LastTwo(Append(times, TimeBody(clock, c2)))
        /\ back' = (backSinceLast \/ c2 < clock)
        /\ backSinceLast' = (c2 < clock)
        /\ clock' = c2
    /\ pc' = "done"
    /\ UNCHANGED <<key, legacyJson, req, outbound, upstream>>

\* the wall clock moves: forwards as time passes, or backwards when it is set
ClockMove ==
    /\ \E c \in 0..MaxClock :
        /\ c # clock
        /\ clock' = c
        /\ backSinceLast' = (backSinceLast \/ c < clock)
    /\ UNCHANGED <<key, legacyJson, pc, req, resp, outbound, upstream, times, back>>

\* The server: requests of /echo, /transform, /summarize and /weather, one
\* after the other.
Init == InitWith(Keys, {}, {0})
Next ==
    \/ Arrive(ServerRequests)
    \/ Echo
    \/ Transform
    \/ Summarize
    \/ Weather
Spec == Init /\ [][Next]_vars

(***************************************************************************)
(* One endpoint at a time, over more inputs: the request is pending in the *)
(* initial state and the handler answers it.                               *)
(***************************************************************************)
TransformAlphabet == {"a", "B", " ", "\t"}
TransformTexts == {Missing} \cup {JStr(t) : t \in SeqsUpTo(TransformAlphabet, MaxTextLen)}
TransformModes ==
    {Missing, JStr(ModeUpper), JStr(<<"U","P","P","E","R">>), JStr(<<"U","p","p","e","r">>),
     JStr(ModeLower), JStr(<<"L","O","W","E","R">>), JStr(ModeStrip),
     JStr(<<"S","t","r","i","P">>), JStr(<<"x">>), JStr(<<>>), JStr(<<" ","u","p","p","e","r">>)}
InitTransform ==
    InitWith({None},
             {Post("/transform", ObjectBody(t, m, Missing)) :
                  t \in TransformTexts, m \in TransformModes}, {0})
NextTransform == Transform
SpecTransform == InitTransform /\ [][NextTransform]_vars

SummarizeAlphabet == {"a", ".", " "}
SummarizeTexts ==
    {JStr(t) : t \in SeqsUpTo(SummarizeAlphabet, MaxSummLen)}
    \cup {JStr(HelloText), JStr(<<"a","!"," ","\n","b","?","\t","c"," ","d",".">>)}
SummarizeLimits ==
    {Missing, JNull, JBool(TRUE), JList(1), JObj(1), JFloat(27), JFloat(0 - 15),
     JStr(<<"2">>), JStr(<<" ","-","1"," ">>), JStr(<<"x">>), JStr(<<"2",".","5">>), JStr(<<>>)}
    \cup {JInt(n) : n \in (0 - 2)..3}
InitSummarize ==
    InitWith({None},
             {Post("/summarize", ObjectBody(t, Missing, n)) :
                  t \in SummarizeTexts, n \in SummarizeLimits}, {0})
NextSummarize == Summarize
SpecSummarize == InitSummarize /\ [][NextSummarize]_vars

\* /time requests one after the other, under every behaviour of the wall clock
InitTime == InitWith({None}, {}, 0..MaxClock)
NextTime ==
    \/ Arrive(TimeRequests)
    \/ CurrentTime
    \/ ClockMove
SpecTime == InitTime /\ [][NextTime]_vars

(***************************************************************************)
(* Properties.                                                             *)
(***************************************************************************)
Done(path) == pc = "done" /\ req.path = path
\* the body of req is a JSON object, which the handlers read as a dict
IsObject == req.body.kind = "json" /\ req.body.val.t = "obj"
JsonError(response) == response.ctype = "json" /\ "error" \in DOMAIN response.body

IsLowerLetter(c) == \E i \in 1..Len(Lowers) : Lowers[i] = c
IsUpperLetter(c) == \E i \in 1..Len(Uppers) : Uppers[i] = c
SameLetter(c, d) == c = d \/ \E i \in 1..Len(Lowers) : {c, d} = {Lowers[i], Uppers[i]}
NonSpace(t) == SelectSeq(t, LAMBDA c : ~IsSpace(c))
\* for each word of t, the number of non-whitespace characters before it
WordStarts(t) ==
    {Len(NonSpace(SubSeq(t, 1, i - 1))) :
        i \in {k \in 1..Len(t) : ~IsSpace(t[k]) /\ (k = 1 \/ IsSpace(t[k - 1]))}}
\* r is t with every run of whitespace replaced by one space and none at the ends
IsCollapsed(r, t) ==
    /\ r = <<>> \/ (~IsSpace(r[1]) /\ ~IsSpace(r[Len(r)]))
    /\ \A i \in 1..Len(r) : IsSpace(r[i]) => r[i] = " " /\ i < Len(r) /\ ~IsSpace(r[i + 1])
    /\ NonSpace(r) = NonSpace(t)
    /\ WordStarts(r) = WordStarts(t)
\* the text and the mode of a /transform request, with their defaults
TextGiven == IF req.body.text = Missing THEN <<>> ELSE req.body.text.s
ModeGiven == IF req.body.mode = Missing THEN ModeUpper ELSE req.body.mode.s
\* m in lowercase is wanted
ModeIs(m, wanted) ==
    /\ Len(m) = Len(wanted)
    /\ \A i \in 1..Len(m) : SameLetter(m[i], wanted[i])
ValidMode(m) == ModeIs(m, ModeUpper) \/ ModeIs(m, ModeLower) \/ ModeIs(m, ModeStrip)

\* C2: for every string S and every mode M that is "upper", "lower" or "strip"
\* in any case (absent M is "upper", absent S is ""), POST /transform answers 200
\* with original = S, mode = M in lowercase and result = S in uppercase, S in
\* lowercase, or S with its whitespace runs collapsed and its ends trimmed.
TransformContract ==
    (/\ Done("/transform")
     /\ IsObject
     /\ req.body.text.t \in {"missing", "str"}
     /\ req.body.mode.t \in {"missing", "str"}
     /\ ValidMode(ModeGiven)) =>
        /\ resp.status = 200
        /\ resp.ctype = "json"
        /\ DOMAIN resp.body = {"original", "result", "mode"}
        /\ resp.body.original = JStr(TextGiven)
        /\ resp.body.mode \in {ModeUpper, ModeLower, ModeStrip}
        /\ ModeIs(ModeGiven, resp.body.mode)
        /\ resp.body.result.t = "str"
        /\ LET S == TextGiven
               R == resp.body.result.s
           IN  CASE resp.body.mode = ModeUpper ->
                       /\ Len(R) = Len(S)
                       /\ \A i \in 1..Len(S) : ~IsLowerLetter(R[i]) /\ SameLetter(R[i], S[i])
                 [] resp.body.mode = ModeLower ->
                       /\ Len(R) = Len(S)
                       /\ \A i \in 1..Len(S) : ~IsUpperLetter(R[i]) /\ SameLetter(R[i], S[i])
                 [] OTHER -> IsCollapsed(R, S)
TransformContractWitness ==
    /\ Done("/transform")
    /\ req.body.text = JStr(<<"a", " ", "\t", "B">>)
    /\ req.body.mode = JStr(<<"S","t","r","i","P">>)
    /\ resp.status = 200
    /\ resp.body.result = JStr(<<"a", " ", "B">>)
    /\ resp.body.mode = ModeStrip

\* C3: a /transform request whose mode is anything but "upper", "lower" or
\* "strip" in any case (a number or null included) is answered 400 with
\* {error: "invalid mode"}.
InvalidModeRejected ==
    (/\ Done("/transform")
     /\ IsObject
     /\ req.body.mode # Missing
     /\ ~(req.body.mode.t = "str" /\ ValidMode(req.body.mode.s))) =>
        resp = Json([error |-> "invalid mode"], 400)

\* the first n of parts, none when n is not positive
FirstUnits(parts, n) == SubSeq(parts, 1, Min(Max(n, 0), Len(parts)))
\* the /summarize request carries a non-empty string as text
HasText == IsObject /\ req.body.text.t = "str" /\ req.body.text.s # <<>>

\* C4: for every non-empty text T and every integer N as max_sentences (0 and
\* negative N included), the summary is the first N units of T joined by one
\* space, the units being the parts of the trimmed T between the whitespace runs
\* that follow '.', '!' or '?'; so it holds at most N units.
SummaryIsFirstUnits ==
    (/\ Done("/summarize")
     /\ HasText
     /\ req.body.max_sentences.t = "int") =>
        /\ resp.status = 200
        /\ resp.body.summary =
               PyJoin(<<" ">>, FirstUnits(ReSplit(PyStrip(req.body.text.s)),
                                          req.body.max_sentences.n))

\* C5: a /summarize request with no text key, an empty text or no JSON object
\* at all is answered 400 with a JSON object that has an error key.
MissingTextRejected ==
    (/\ Done("/summarize")
     /\ \/ ~IsObject
        \/ req.body.text = Missing
        \/ req.body.text = JStr(<<>>)) =>
        resp.status = 400 /\ JsonError(resp)

\* C6: with a non-empty text, the max_sentences of the response is 3 when the
\* key is absent, int() of the value when int() takes it, and 3 for every value
\* int() refuses (null, a non-numeric string, a list, an object); the response
\* is never an error.
LimitFallsBackToThree ==
    (Done("/summarize") /\ HasText) =>
        /\ resp.status = 200
        /\ resp.ctype = "json"
        /\ LET f == req.body.max_sentences
               used == resp.body.max_sentences
           IN  CASE f.t \in {"missing", "null", "list", "obj"} -> used = 3
                 [] f.t \in {"int", "bool"} -> used = f.n
                 [] f.t = "float" ->
                        /\ 10 * used <= f.n \/ f.n < 0
                        /\ 10 * used >= f.n \/ f.n > 0
                        /\ f.n - 10 * used \in -9..9
                 [] OTHER ->
                        IF IntOfString(f.s).ok THEN used = IntOfString(f.s).n ELSE used = 3
LimitFallsBackToThreeWitness ==
    /\ Done("/summarize")
    /\ HasText
    /\ req.body.max_sentences = JStr(<<"x">>)
    /\ resp.status = 200
    /\ resp.body.max_sentences = 3

\* C7: GET /weather without a city is answered 400, key or no key; with a city
\* and without a key, 500; neither calls the upstream.  With a city and a key
\* the handler sends exactly one GET, whatever the upstream answers.
WeatherChecksBeforeOneCall ==
    Done("/weather") =>
        LET noCity == ~req.city.present \/ req.city.s = <<>>
            noKey == ~key.present \/ key.s = <<>>
        IN  /\ noCity => resp.status = 400 /\ outbound = <<>>
            /\ ~noCity /\ noKey => resp.status = 500 /\ outbound = <<>>
            /\ ~noCity /\ ~noKey =>
                   /\ Len(outbound) = 1
                   /\ outbound[1].q = req.city.s
                   /\ outbound[1].appid = key.s
            /\ outbound # <<>> => ~noCity /\ ~noKey
WeatherChecksBeforeOneCallWitness ==
    /\ Done("/weather")
    /\ req.city = Some(London)
    /\ key = Some(<<"k">>)
    /\ Len(outbound) = 1
    /\ upstream.kind = "timeout"

ErrorsAreJson ==
    (pc = "done" /\ resp.status >= 400) => JsonError(resp)

\* the instant of a formatted utc_time, in ticks
UtcTicks(u) == u.sec * TicksPerSecond + u.frac

\* C10 as amended: of two /time responses one after the other, the later has a
\* timestamp and a utc_time greater than or equal to the earlier's whenever the
\* wall clock was not set back between the first clock read of the earlier and
\* the last clock read of the later; the handler reports the wall clock as it
\* reads it.
TimeFollowsClock ==
    (Len(times) = 2 /\ ~back) =>
        /\ times[2].timestamp >= times[1].timestamp
        /\ UtcTicks(times[2].utc_time) >= UtcTicks(times[1].utc_time)
TimeFollowsClockWitness ==
    /\ Len(times) = 2
    /\ ~back
    /\ pc = "done"
    /\ times[2].timestamp > times[1].timestamp
    /\ UtcTicks(times[2].utc_time) > UtcTicks(times[1].utc_time)
\* C10 as stated: the later response is never earlier than the one before,
\* for every behaviour of the wall clock.
TimeNeverDecreases ==
    Len(times) = 2 =>
        /\ times[2].timestamp >= times[1].timestamp
        /\ UtcTicks(times[2].utc_time) >= UtcTicks(times[1].utc_time)

====
